---------------------------- MODULE Spec2Model ----------------------------
(***************************************************************************)
(* Model of the anchor-based extraction pipeline of main.py:               *)
(*   get_corrected_rect, find_text_position, extract_text_in_region,       *)
(*   extract_data_from_pdf and process_pdfs_in_folder,                     *)
(* together with the file-listing step of add_gui.py.                      *)
(*                                                                         *)
(* Text is a sequence of one-character strings.  A PDF document is the     *)
(* environment: per page it holds the number of hits of every keyword and, *)
(* for each of the six fixed clip regions, the lines the page shows there. *)
(* page.get_text renders those lines to characters; the program's strip /  *)
(* split("\n") / split() then work on the characters.                      *)
(***************************************************************************)
EXTENDS Integers, Sequences, FiniteSets, TLC

VARIABLES
    folder,       \* the input folder: [exists, listing, fs]
    pc,           \* control location of process_pdfs_in_folder / extract_data_from_pdf
    pdf_files,    \* main.py:145
    file_idx,     \* position of the for loop of main.py:151 (1-based)
    all_data,     \* main.py:150
    final_df,     \* main.py:159 (None until written)
    df,           \* value returned by extract_data_from_pdf
    positions,    \* keyword -> anchors (page indices), main.py:59-63
    table_text,   \* main.py:85 / 95
    iso_no_text,  \* main.py:89 / 101
    rev_no_text,  \* main.py:90 / 102
    open_docs,    \* document handles currently open
    extracted,    \* calls of extract_text_in_region made for the current document
    console,      \* lines printed so far
    results,      \* per processed document: file, returned table, regions read
    geo           \* inputs and outputs of get_corrected_rect

vars == <<folder, pc, pdf_files, file_idx, all_data, final_df, df, positions,
          table_text, iso_no_text, rev_no_text, open_docs, extracted, console,
          results, geo>>

None == "None"

-----------------------------------------------------------------------------
(* Bounds of the model *)

MaxLines == 3      \* lines a table region shows
MaxFiles == 3      \* entries of a directory listing
MantBits == 3      \* bits of a float's significand (53 in CPython)
MaxCoord == 20     \* largest coordinate / page dimension, in float quanta

-----------------------------------------------------------------------------
(* Python string operations *)

Whitespace == {" ", "\t", "\n"}

IsSpace(c) == c \in Whitespace

SetMin(S) == CHOOSE i \in S : \A j \in S : i <= j
SetMax(S) == CHOOSE i \in S : \A j \in S : i >= j

\* str.strip()
Strip(s) ==
    LET idx == {i \in 1..Len(s) : ~IsSpace(s[i])}
    IN  IF idx = {} THEN <<>> ELSE SubSeq(s, SetMin(idx), SetMax(idx))

\* the k-th smallest element of a set of indices
Nth(S, k) == CHOOSE i \in S : Cardinality({j \in S : j <= i}) = k

\* str.split(sep) for a one-character separator: empty pieces are kept
SplitOn(s, sep) ==
    LET seps == {i \in 1..Len(s) : s[i] = sep}
        n    == Cardinality(seps)
        cut  == [k \in 0..(n + 1) |->
                    IF k = 0 THEN 0 ELSE IF k = n + 1 THEN Len(s) + 1 ELSE Nth(seps, k)]
    IN  [k \in 1..(n + 1) |-> SubSeq(s, cut[k - 1] + 1, cut[k] - 1)]

\* str.split(): split on runs of whitespace, no empty pieces
SplitWs(s) ==
    LET starts == {i \in 1..Len(s) : ~IsSpace(s[i]) /\ (i = 1 \/ IsSpace(s[i - 1]))}
        ends   == {i \in 1..Len(s) : ~IsSpace(s[i]) /\ (i = Len(s) \/ IsSpace(s[i + 1]))}
    IN  [k \in 1..Cardinality(starts) |-> SubSeq(s, Nth(starts, k), Nth(ends, k))]

Lower(s) ==
    [i \in 1..Len(s) |->
        CASE s[i] = "A" -> "a" [] s[i] = "B" -> "b" [] s[i] = "P" -> "p"
          [] s[i] = "D" -> "d" [] s[i] = "F" -> "f" [] OTHER -> s[i]]

EndsWith(s, suffix) ==
    /\ Len(s) >= Len(suffix)
    /\ SubSeq(s, Len(s) - Len(suffix) + 1, Len(s)) = suffix

RECURSIVE Flatten(_)
Flatten(ss) == IF ss = <<>> THEN <<>> ELSE Head(ss) \o Flatten(Tail(ss))

-----------------------------------------------------------------------------
(* Floating point.  fitz.Rect coordinates and page dimensions are Python   *)
(* floats; every subtraction of get_corrected_rect rounds to the nearest   *)
(* representable value, ties to even.  A float is modelled as an integer   *)
(* number of quanta (the spacing of the smallest values) whose significand *)
(* fits in MantBits bits.                                                  *)

RECURSIVE Pow2(_)
Pow2(k) == IF k = 0 THEN 1 ELSE 2 * Pow2(k - 1)

Abs(n) == IF n < 0 THEN -n ELSE n

RECURSIVE Quantum(_, _)
Quantum(a, q) == IF a < Pow2(MantBits) * q THEN q ELSE Quantum(a, 2 * q)

\* the float nearest to the real number n (round half to even)
Round(n) ==
    LET a  == Abs(n)
        q  == Quantum(a, 1)
        lo == (a \div q) * q
        up == lo + q
        r  == a - lo
        m  == IF 2 * r < q THEN lo
              ELSE IF 2 * r > q THEN up
              ELSE IF (lo \div q) % 2 = 0 THEN lo ELSE up
    IN  IF n < 0 THEN -m ELSE m

IsFloat(n) == Round(n) = n

\* float subtraction a - b
FSub(a, b) == Round(a - b)

Rect(x0, y0, x1, y1) == [x0 |-> x0, y0 |-> y0, x1 |-> x1, y1 |-> y1]

\* the 180 degree branch computed with the 90 degree formula
get_corrected_rect_180_as_90(page, rect) ==
    LET rotation    == page.rotation
        page_width  == page.width
        page_height == page.height
    IN  IF rotation = 90 \/ rotation = 180
        THEN Rect(rect.y0, FSub(page_width, rect.x1), rect.y1, FSub(page_width, rect.x0))
        ELSE IF rotation = 270
        THEN Rect(FSub(page_height, rect.y1), rect.x0, FSub(page_height, rect.y0), rect.x1)
        ELSE rect

\* main.py:5-19
get_corrected_rect(page, rect) ==
    LET rotation    == page.rotation
        page_width  == page.width
        page_height == page.height
    IN  IF rotation = 90
        THEN Rect(rect.y0, FSub(page_width, rect.x1), rect.y1, FSub(page_width, rect.x0))
        ELSE IF rotation = 180
        THEN Rect(FSub(page_width, rect.x1), FSub(page_height, rect.y1),
                  FSub(page_width, rect.x0), FSub(page_height, rect.y0))
        ELSE IF rotation = 270
        THEN Rect(FSub(page_height, rect.y1), rect.x0, FSub(page_height, rect.y0), rect.x1)
        ELSE rect

Floats == {n \in 0..MaxCoord : IsFloat(n)}

\* coordinates near the origin and near the far edge of the page
Coords == {c \in Floats : c <= 2 \/ c >= MaxCoord - 4}

PageDims == {d \in Floats : d >= MaxCoord - 4}

\* page.rotation: the four values of the format, and values outside it
Rotations == {0, 90, 180, 270, 45, 360}

GeoRects ==
    {Rect(x0, y0, x1, y1) : x0 \in Coords, y0 \in Coords,
                            x1 \in Coords, y1 \in Coords}

GeoPages ==
    [rotation : Rotations, width : PageDims, height : PageDims]

GeoIdle == [page |-> None, rect |-> None, out |-> <<>>]

-----------------------------------------------------------------------------
(* Documents (the environment) *)

\* main.py:59-63, in search order
Keywords == <<"NPS", "TOXIC", "KOSHA", "ISO DWG. NO.", "REV. NO">>

KeywordSet == {Keywords[i] : i \in 1..Len(Keywords)}

\* main.py:46-53: the three clip regions of CoordinateSet 1 and 2
Regions == {"table_rect_set1", "iso_no_rect_set1", "rev_no_rect_set1",
            "table_rect_set2", "iso_no_rect_set2", "rev_no_rect_set2"}

\* main.py:106-110
columns ==
    <<"NPS", "SPEC", "OPER.PRESS", "OPER.TEMP", "DESIGN.PRESS", "DESIGN.TEMP",
      "TEST.PRESS", "MEDIUM", "INSULATION.TYPE", "INSULATION.THK", "TRACING.TEMP",
      "PAUT", "UT", "PT", "MT", "PAINTCODE", "PWHT", "STEAMOUT", "TOXIC">>

NumColumns == Len(columns)

\* A line a page shows in a region: n tokens of pattern pat, separated by
\* sep, with blanks around the line when pad.
Line(n, pat, sep, pad) == [n |-> n, pat |-> pat, sep |-> sep, pad |-> pad]

\* the i-th token of a line of pattern pat
Tok(pat, i) ==
    CASE pat = 1 -> IF i % 2 = 1 THEN <<"a">> ELSE <<"b", "a">>
      [] pat = 2 -> IF i % 3 = 0 THEN <<"b">> ELSE <<"a", "b">>
      [] pat = 3 -> <<"c">>
      [] OTHER   -> <<"c", "b">>

Tokens(line) == [i \in 1..line.n |-> Tok(line.pat, i)]

RECURSIVE Join(_, _)
Join(toks, sep) ==
    IF toks = <<>> THEN <<>>
    ELSE IF Len(toks) = 1 THEN toks[1]
    ELSE toks[1] \o sep \o Join(Tail(toks), sep)

RenderLine(line) ==
    (IF line.pad THEN <<" ">> ELSE <<>>)
        \o Join(Tokens(line), line.sep)
        \o (IF line.pad THEN <<"\t">> ELSE <<>>)

\* page.get_text("text", clip=...): every line ends with a newline
RenderText(lines) == Flatten([i \in 1..Len(lines) |-> RenderLine(lines[i]) \o <<"\n">>])

Blank0  == Line(0, 1, <<" ">>, FALSE)
BlankSp == Line(0, 1, <<" ">>, TRUE)
Row19a  == Line(NumColumns, 1, <<" ">>, FALSE)
Row19b  == Line(NumColumns, 2, <<" ", "\t">>, TRUE)
Row18   == Line(NumColumns - 1, 1, <<" ">>, FALSE)
Row20   == Line(NumColumns + 1, 2, <<"\t">>, FALSE)

LineShapes == {Blank0, BlankSp, Row19a, Row19b, Row18, Row20}

RECURSIVE SeqsUpTo(_, _)
SeqsUpTo(S, n) ==
    IF n = 0 THEN {<<>>}
    ELSE LET shorter == SeqsUpTo(S, n - 1)
         IN  shorter \cup {Append(s, x) : s \in shorter, x \in S}

\* what a table region can show
TableContents == SeqsUpTo(LineShapes, MaxLines)

\* what an ISO-number / revision-number region can show
IsoA == <<Line(1, 1, <<" ">>, FALSE)>>
IsoB == <<BlankSp, Line(2, 2, <<" ">>, TRUE)>>
RevA == <<Line(1, 3, <<" ">>, TRUE)>>
RevB == <<Line(1, 4, <<" ">>, FALSE), Blank0>>

HasText(lines) == \E i \in 1..Len(lines) : lines[i].n > 0

\* the six regions of one page
PageText(t1, i1, r1, t2, i2, r2) ==
    [r \in Regions |->
        CASE r = "table_rect_set1"  -> t1
          [] r = "iso_no_rect_set1" -> i1
          [] r = "rev_no_rect_set1" -> r1
          [] r = "table_rect_set2"  -> t2
          [] r = "iso_no_rect_set2" -> i2
          [] r = "rev_no_rect_set2" -> r2]

TextBoth   == PageText(<<Row19a>>, IsoA, RevA, <<Row19b, Row19a>>, IsoB, RevB)
TextBothB  == PageText(<<BlankSp, Row19b>>, IsoB, RevB, <<Row19a>>, IsoA, RevA)
TextOnly2  == PageText(<<>>, <<>>, <<>>, <<Row19b, Row19a>>, IsoB, RevB)
TextBlank1 == PageText(<<BlankSp, Blank0>>, IsoA, RevA, <<Row19a>>, <<>>, RevB)
TextBad1   == PageText(<<Row19a, Row18>>, IsoA, RevA, <<Row19a>>, IsoB, RevB)
TextNone   == PageText(<<>>, IsoA, RevA, <<BlankSp>>, IsoB, RevB)

AllHits  == [k \in KeywordSet |-> 1]

Page(hits, text) == [hits |-> hits, text |-> text]

\* which library call raises: none, fitz.open, page.search_for of a keyword,
\* page.get_text on a region
Faults == {"none", "open"} \cup KeywordSet \cup Regions

Doc(fault, pages) == [fault |-> fault, pages |-> pages]

\* one page; any set of keywords missing; any fault
DocsAnchors ==
    {Doc(f, <<Page(h, t)>>) :
        f \in Faults, h \in [KeywordSet -> {0, 1}], t \in {TextBoth, TextOnly2}}

\* two pages; the first NPS / ISO / REV anchor on either page
AnchorKeys == {"NPS", "ISO DWG. NO.", "REV. NO"}

DocsLayout ==
    {Doc(f, <<Page([k \in KeywordSet |-> IF k \in AnchorKeys /\ p[k] = 0 THEN 2 ELSE 0], t0),
              Page(AllHits, t1)>>) :
        f \in {"none"} \cup Regions,
        p \in [AnchorKeys -> {0, 1}],
        t0 \in {TextBoth, TextBothB, TextOnly2, TextBlank1, TextBad1, TextNone},
        t1 \in {TextBoth, TextBothB, TextOnly2, TextBlank1, TextBad1, TextNone}}

\* one page; every table content in the primary or in the fallback region
DocsTables ==
    {Doc("none", <<Page(AllHits, PageText(t, IsoA, RevA, <<>>, IsoB, RevB))>>) :
        t \in TableContents}
    \cup
    {Doc("none", <<Page(AllHits, PageText(<<>>, IsoA, RevA, t, IsoB, RevB))>>) :
        t \in TableContents}

Docs == DocsAnchors \cup DocsLayout \cup DocsTables

\* documents of the folders that hold several files
GoodDoc1    == Doc("none", <<Page(AllHits, TextBoth)>>)
GoodDoc2    == Doc("none", <<Page(AllHits, TextOnly2)>>)
BrokenDoc   == Doc("open", <<Page(AllHits, TextBoth)>>)
MismatchDoc == Doc("none", <<Page(AllHits, TextBad1)>>)
NoAnchorDoc == Doc("none", <<Page([AllHits EXCEPT !["REV. NO"] = 0], TextBoth)>>)
NoTableDoc  == Doc("none", <<Page(AllHits, TextNone)>>)

Fixtures == {GoodDoc1, GoodDoc2, BrokenDoc, MismatchDoc, NoAnchorDoc, NoTableDoc}

\* directory entries
FileNames ==
    { <<"b", ".", "p", "d", "f">>, <<"A", ".", "P", "D", "F">>,
      <<"a", ".", "p", "d", "f">>, <<"a", ".", "t", "x", "t">> }

RECURSIVE Listings(_)
Listings(n) ==
    IF n = 0 THEN {<<>>}
    ELSE LET shorter == Listings(n - 1)
         IN  shorter \cup
             {Append(s, x) : s \in {t \in shorter : Len(t) = n - 1},
                             x \in FileNames} 

Range(s) == {s[i] : i \in 1..Len(s)}

NoDuplicates(s) == Cardinality(Range(s)) = Len(s)

Folder(exists, listing, fs) == [exists |-> exists, listing |-> listing, fs |-> fs]

TextFile == <<"a", ".", "t", "x", "t">>

\* what a directory entry can hold: a file that is no PDF cannot be opened
ContentsOf(name) == IF name = TextFile THEN {BrokenDoc} ELSE Fixtures

FixtureFolders(listing) ==
    {Folder(TRUE, listing, fs) :
        fs \in {f \in [Range(listing) -> Fixtures] :
                    \A n \in Range(listing) : f[n] \in ContentsOf(n)}}

\* a folder that does not exist; folders of up to MaxFiles entries whose
\* documents are fixtures; folders of one file holding any document
Folders ==
    {Folder(FALSE, <<>>, <<>>)}
    \cup
    UNION {FixtureFolders(l) : l \in {s \in Listings(MaxFiles) : NoDuplicates(s)}}
    \cup
    {Folder(TRUE, <<n>>, [m \in {n} |-> d]) :
        n \in {<<"a", ".", "p", "d", "f">>}, d \in Docs}

-----------------------------------------------------------------------------
(* The functions of main.py *)

\* main.py:21-31.  An anchor is kept as its page index: the corrected
\* bounding box of main.py:29-30 is never read by the caller.
find_text_position(doc, search_text) ==
    Flatten([p \in 1..Len(doc.pages) |->
                [j \in 1..doc.pages[p].hits[search_text] |-> p - 1]])

\* page.get_text("text", clip=corrected_rect) of main.py:38
get_text(doc, page_index, rect) == RenderText(doc.pages[page_index + 1].text[rect])

\* main.py:33-39.  The clip rectangle is named by its region: a page shows
\* its lines in a region whatever its rotation, and the correction of the
\* rectangle itself (main.py:37) is the subject of GeoSpec.
extract_text_in_region(doc, page_index, rect) == Strip(get_text(doc, page_index, rect))

\* main.py:68
AllFound_no_toxic(pos) ==
    pos["NPS"] # <<>> /\ pos["KOSHA"] # <<>>
        /\ pos["ISO DWG. NO."] # <<>> /\ pos["REV. NO"] # <<>>

AllFound(pos) ==
    pos["NPS"] # <<>> /\ pos["TOXIC"] # <<>> /\ pos["KOSHA"] # <<>>
        /\ pos["ISO DWG. NO."] # <<>> /\ pos["REV. NO"] # <<>>

\* main.py:73-80: the page of the first anchor of a keyword
FirstPage(pos, keyword) == pos[keyword][1]

nps_page_uses_iso(pos) == FirstPage(pos, "ISO DWG. NO.")

nps_page(pos) == FirstPage(pos, "NPS")
iso_page(pos) == FirstPage(pos, "ISO DWG. NO.")
rev_page(pos) == FirstPage(pos, "REV. NO")

\* main.py:46-53, 85-102: the regions of a CoordinateSet
table_rect(set) == IF set = 1 THEN "table_rect_set1" ELSE "table_rect_set2"

iso_no_rect_always_set1(set) == "iso_no_rect_set1"

iso_no_rect(set) == IF set = 1 THEN "iso_no_rect_set1" ELSE "iso_no_rect_set2"
rev_no_rect(set) == IF set = 1 THEN "rev_no_rect_set1" ELSE "rev_no_rect_set2"

\* main.py:112
ParseRows_keep_blank(text) ==
    LET lines == SplitOn(text, "\n")
    IN  [i \in 1..Len(lines) |-> SplitWs(lines[i])]

ParseRows(text) ==
    LET lines == SplitOn(text, "\n")
        kept  == SelectSeq(lines, LAMBDA line : Strip(line) # <<>>)
    IN  [i \in 1..Len(kept) |-> SplitWs(kept[i])]

\* main.py:119
SchemaMismatch_first_row_only(rows) == Len(rows[1]) # Len(columns)

SchemaMismatch(rows) == \E i \in 1..Len(rows) : Len(rows[i]) # Len(columns)

\* a DataFrame is the sequence of its rows; None is kept apart
NoneDf == [is_none |-> TRUE, rows |-> <<>>]

Frame(rows) == [is_none |-> FALSE, rows |-> rows]

\* main.py:124-128: the table with the ISO_NO and REV.NO columns added
DataFrame(rows, iso_text, rev_text) ==
    Frame([i \in 1..Len(rows) |-> rows[i] \o <<iso_text, rev_text>>])

\* main.py:155: df is not None and not df.empty
Usable(d) == ~d.is_none /\ d.rows # <<>>

\* main.py:156
Collect_prepend(data, d) == IF Usable(d) THEN <<d>> \o data ELSE data

Collect(data, d) == IF Usable(d) THEN Append(data, d) ELSE data

\* main.py:159: pd.concat(all_data, ignore_index=True)
concat(data) == Frame(Flatten([i \in 1..Len(data) |-> data[i].rows]))

\* main.py:145 and add_gui.py:143
IsPdf(f) == EndsWith(Lower(f), <<".", "p", "d", "f">>)

\* the "with fitz.open(...) as doc" block of main.py:56 closes on every exit
CloseOnExit_leak(handles, path) == handles

CloseOnExit(handles, path) == handles \ {path}

-----------------------------------------------------------------------------
(* State *)

NoPath == <<>>

NoPositions == [k \in KeywordSet |-> <<>>]

\* os.path.join(folder_path, pdf_file) of main.py:152
pdf_path == pdf_files[file_idx]

\* the document behind pdf_path
CurDoc == folder.fs[pdf_path]

\* a printed line: its kind, the path its text interpolates (NoPath when the
\* f-string names no file) and the position of the file being processed
Msg(kind, path) == [msg |-> kind, path |-> path, during |-> file_idx]

\* a call of extract_text_in_region: page, region, and what the page shows there
Call(doc, page_index, rect) ==
    [page |-> page_index, rect |-> rect, lines |-> doc.pages[page_index + 1].text[rect]]

Init ==
    /\ folder \in Folders
    /\ pc = "start"
    /\ pdf_files = <<>>
    /\ file_idx = 0
    /\ all_data = <<>>
    /\ final_df = NoneDf
    /\ df = NoneDf
    /\ positions = NoPositions
    /\ table_text = <<>>
    /\ iso_no_text = <<>>
    /\ rev_no_text = <<>>
    /\ open_docs = {}
    /\ extracted = <<>>
    /\ console = <<>>
    /\ results = <<>>
    /\ geo = GeoIdle

-----------------------------------------------------------------------------
(* process_pdfs_in_folder, main.py:136-168 *)

\* main.py:140-150
ListFolder ==
    /\ pc = "start"
    /\ IF ~folder.exists
       THEN /\ console' = Append(console, Msg("folder_missing", NoPath))
            /\ pc' = "done"
            /\ UNCHANGED <<pdf_files, file_idx>>
       ELSE LET files == SelectSeq(folder.listing, IsPdf)
            IN  /\ pdf_files' = files
                /\ IF files = <<>>
                   THEN /\ console' = Append(console, Msg("no_pdfs", NoPath))
                        /\ pc' = "done"
                        /\ UNCHANGED file_idx
                   ELSE /\ pc' = "loop"
                        /\ file_idx' = 1
                        /\ UNCHANGED console
    /\ UNCHANGED <<folder, all_data, final_df, df, positions, table_text, iso_no_text,
                   rev_no_text, open_docs, extracted, results, geo>>

\* main.py:151-154: the next file of the loop, up to the call
NextFile ==
    /\ pc = "loop"
    /\ file_idx <= Len(pdf_files)
    /\ console' = Append(console, Msg("processing", pdf_path))
    /\ extracted' = <<>>
    /\ pc' = "open"
    /\ UNCHANGED <<folder, pdf_files, file_idx, all_data, final_df, df, positions,
                   table_text, iso_no_text, rev_no_text, open_docs, results, geo>>

\* main.py:155-156
CollectResult ==
    /\ pc = "collect"
    /\ all_data' = Collect(all_data, df)
    /\ file_idx' = file_idx + 1
    /\ pc' = "loop"
    /\ UNCHANGED <<folder, pdf_files, final_df, df, positions, table_text, iso_no_text,
                   rev_no_text, open_docs, extracted, console, results, geo>>

\* main.py:158-164
Finish ==
    /\ pc = "loop"
    /\ file_idx > Len(pdf_files)
    /\ IF all_data # <<>>
       THEN /\ final_df' = concat(all_data)
            /\ console' = Append(console, Msg("csv_saved", NoPath))
       ELSE /\ console' = Append(console, Msg("no_data", NoPath))
            /\ UNCHANGED final_df
    /\ pc' = "done"
    /\ UNCHANGED <<folder, pdf_files, file_idx, all_data, df, positions, table_text,
                   iso_no_text, rev_no_text, open_docs, extracted, results, geo>>

-----------------------------------------------------------------------------
(* extract_data_from_pdf, main.py:41-134 *)

\* a return statement: the with block closes the document, the locals go,
\* the value reaches the caller
Return(value, printed, calls) ==
    /\ df' = value
    /\ open_docs' = CloseOnExit(open_docs, pdf_path)
    /\ console' = console \o printed
    /\ extracted' = calls
    /\ results' = Append(results, [file |-> pdf_path, df |-> value, calls |-> calls])
    /\ positions' = NoPositions
    /\ table_text' = <<>>
    /\ iso_no_text' = <<>>
    /\ rev_no_text' = <<>>
    /\ pc' = "collect"
    /\ UNCHANGED <<folder, pdf_files, file_idx, all_data, final_df, geo>>

\* main.py:132-134: an exception leaves the with block and is caught
Raise(calls) == Return(NoneDf, <<Msg("processing_error", NoPath)>>, calls)

\* main.py:55-56
OpenDoc ==
    /\ pc = "open"
    /\ IF CurDoc.fault = "open"
       THEN Raise(extracted)
       ELSE /\ open_docs' = open_docs \cup {pdf_path}
            /\ pc' = "anchors"
            /\ UNCHANGED <<folder, pdf_files, file_idx, all_data, final_df, df, positions,
                           table_text, iso_no_text, rev_no_text, extracted, console,
                           results, geo>>

\* main.py:58-70
FindAnchors ==
    /\ pc = "anchors"
    /\ LET found == [k \in KeywordSet |-> find_text_position(CurDoc, k)]
       IN  IF CurDoc.fault \in KeywordSet
           THEN Return(NoneDf, <<Msg("keyword_search_error", NoPath)>>, extracted)
           ELSE IF ~AllFound(found)
           THEN Return(NoneDf, <<Msg("missing_keyword", pdf_path)>>, extracted)
           ELSE /\ positions' = found
                /\ pc' = "primary"
                /\ UNCHANGED <<folder, pdf_files, file_idx, all_data, final_df, df,
                               table_text, iso_no_text, rev_no_text, open_docs,
                               extracted, console, results, geo>>

\* main.py:73-87
ExtractPrimary ==
    /\ pc = "primary"
    /\ LET page  == nps_page(positions)
           rect  == table_rect(1)
           calls == Append(extracted, Call(CurDoc, page, rect))
           text  == extract_text_in_region(CurDoc, page, rect)
       IN  IF CurDoc.fault = rect
           THEN Raise(calls)
           ELSE /\ table_text' = text
                /\ extracted' = calls
                /\ pc' = IF Strip(text) # <<>> THEN "set1" ELSE "fallback"
                /\ UNCHANGED <<folder, pdf_files, file_idx, all_data, final_df, df,
                               positions, iso_no_text, rev_no_text, open_docs, console,
                               results, geo>>

\* main.py:95-99
ExtractFallback ==
    /\ pc = "fallback"
    /\ LET page  == nps_page(positions)
           rect  == table_rect(2)
           calls == Append(extracted, Call(CurDoc, page, rect))
           text  == extract_text_in_region(CurDoc, page, rect)
       IN  IF CurDoc.fault = rect
           THEN Raise(calls)
           ELSE IF Strip(text) = <<>>
           THEN Return(NoneDf, <<Msg("no_table_text", pdf_path)>>, calls)
           ELSE /\ table_text' = text
                /\ extracted' = calls
                /\ pc' = "set2"
                /\ UNCHANGED <<folder, pdf_files, file_idx, all_data, final_df, df,
                               positions, iso_no_text, rev_no_text, open_docs, console,
                               results, geo>>

\* main.py:89-90 (set 1) and main.py:101-102 (set 2)
ExtractIsoRev ==
    \E set \in {1, 2} :
        /\ pc = (IF set = 1 THEN "set1" ELSE "set2")
        /\ LET ipage  == iso_page(positions)
               rpage  == rev_page(positions)
               irect  == iso_no_rect(set)
               rrect  == rev_no_rect(set)
               calls1 == Append(extracted, Call(CurDoc, ipage, irect))
               calls2 == Append(calls1, Call(CurDoc, rpage, rrect))
           IN  IF CurDoc.fault = irect
               THEN Raise(calls1)
               ELSE IF CurDoc.fault = rrect
               THEN Raise(calls2)
               ELSE /\ iso_no_text' = extract_text_in_region(CurDoc, ipage, irect)
                    /\ rev_no_text' = extract_text_in_region(CurDoc, rpage, rrect)
                    /\ extracted' = calls2
                    /\ pc' = "parse"
                    /\ UNCHANGED <<folder, pdf_files, file_idx, all_data, final_df, df,
                                   positions, table_text, open_docs, console, results,
                                   geo>>

\* main.py:106-130
Parse ==
    /\ pc = "parse"
    /\ LET rows == ParseRows(table_text)
       IN  IF rows = <<>>
           THEN Return(NoneDf, <<Msg("empty_table", pdf_path)>>, extracted)
           ELSE IF SchemaMismatch(rows)
           THEN Return(NoneDf, <<Msg("schema_mismatch", pdf_path)>>, extracted)
           ELSE Return(DataFrame(rows, iso_no_text, rev_no_text), <<>>, extracted)

Next ==
    \/ ListFolder
    \/ NextFile
    \/ OpenDoc
    \/ FindAnchors
    \/ ExtractPrimary
    \/ ExtractFallback
    \/ ExtractIsoRev
    \/ Parse
    \/ CollectResult
    \/ Finish

Spec == Init /\ [][Next]_vars

-----------------------------------------------------------------------------
(* get_corrected_rect applied to a rectangle, and to its own result *)

GeoInit ==
    /\ geo \in [page : GeoPages, rect : GeoRects, out : {<<>>}]
    /\ folder = Folder(FALSE, <<>>, <<>>)
    /\ pc = "geometry"
    /\ pdf_files = <<>>
    /\ file_idx = 0
    /\ all_data = <<>>
    /\ final_df = NoneDf
    /\ df = NoneDf
    /\ positions = NoPositions
    /\ table_text = <<>>
    /\ iso_no_text = <<>>
    /\ rev_no_text = <<>>
    /\ open_docs = {}
    /\ extracted = <<>>
    /\ console = <<>>
    /\ results = <<>>

\* main.py:29 / main.py:37: one call, on the input or on the previous result
Correct ==
    /\ pc = "geometry"
    /\ Len(geo.out) < 2
    /\ LET arg == IF geo.out = <<>> THEN geo.rect ELSE geo.out[Len(geo.out)]
       IN  geo' = [geo EXCEPT !.out = Append(@, get_corrected_rect(geo.page, arg))]
    /\ UNCHANGED <<folder, pc, pdf_files, file_idx, all_data, final_df, df, positions,
                   table_text, iso_no_text, rev_no_text, open_docs, extracted, console,
                   results>>

GeoNext == Correct

GeoSpec == GeoInit /\ [][GeoNext]_vars

-----------------------------------------------------------------------------
(* add_gui.py: the listing step that sorts *)

CodePoint(c) ==
    CASE c = "." -> 46 [] c = "A" -> 65 [] c = "B" -> 66 [] c = "D" -> 68
      [] c = "F" -> 70 [] c = "P" -> 80 [] c = "a" -> 97 [] c = "b" -> 98
      [] c = "d" -> 100 [] c = "f" -> 102 [] c = "p" -> 112 [] c = "t" -> 116
      [] c = "x" -> 120 [] OTHER -> 0

\* Python's order of str: by code point, a proper prefix first
RECURSIVE StrLess(_, _)
StrLess(a, b) ==
    IF b = <<>> THEN FALSE
    ELSE IF a = <<>> THEN TRUE
    ELSE IF Head(a) # Head(b) THEN CodePoint(Head(a)) < CodePoint(Head(b))
    ELSE StrLess(Tail(a), Tail(b))

RECURSIVE Insert(_, _)
Insert(sorted, x) ==
    IF sorted = <<>> THEN <<x>>
    ELSE IF StrLess(x, Head(sorted)) THEN <<x>> \o sorted
    ELSE <<Head(sorted)>> \o Insert(Tail(sorted), x)

RECURSIVE Sorted(_)
Sorted(s) == IF s = <<>> THEN <<>> ELSE Insert(Sorted(Tail(s)), Head(s))

\* add_gui.py:143-147: the PDF files of the listing, sorted by name
sorted_pdf_files(listing) == Sorted(SelectSeq(listing, IsPdf))

-----------------------------------------------------------------------------
(* Vocabulary of the properties *)

Set1Rects == {"table_rect_set1", "iso_no_rect_set1", "rev_no_rect_set1"}
Set2Rects == {"table_rect_set2", "iso_no_rect_set2", "rev_no_rect_set2"}
TableRects == {"table_rect_set1", "table_rect_set2"}
FieldRects == Regions \ TableRects

SetOf(rect) == IF rect \in Set1Rects THEN 1 ELSE 2

FailureKinds == {"keyword_search_error", "missing_keyword", "no_table_text",
                 "empty_table", "schema_mismatch", "processing_error"}

\* the printed lines of kind k that belong to the i-th processed file
Lines(i, k) == {j \in 1..Len(console) : console[j].during = i /\ console[j].msg = k}

FailureLines(i) == {j \in 1..Len(console) :
                        console[j].during = i /\ console[j].msg \in FailureKinds}

\* the document of the i-th processed file
DocOf(i) == folder.fs[results[i].file]

\* the call logs: of every finished document, and of the one in progress
Logs == {results[i].calls : i \in 1..Len(results)} \cup {extracted}

\* a document has no anchor of keyword k on any page
Lacks(doc, k) == \A p \in 1..Len(doc.pages) : doc.pages[p].hits[k] = 0

LacksSome(doc) == \E k \in KeywordSet : Lacks(doc, k)

\* the first page (0-based) that holds keyword k
FirstPageOf(doc, k) == SetMin({p \in 0..(Len(doc.pages) - 1) : doc.pages[p + 1].hits[k] > 0})

\* the non-blank lines of a region, in order
NonBlank(lines) == SelectSeq(lines, LAMBDA l : l.n > 0)

\* the calls of a log that read a table region showing text
AcceptedTables(log) ==
    {j \in 1..Len(log) : log[j].rect \in TableRects /\ HasText(log[j].lines)}

\* the text of a one-line field as the page shows it, blanks around it aside
FieldText(lines) ==
    IF NonBlank(lines) = <<>> THEN <<>>
    ELSE Join(Tokens(NonBlank(lines)[1]), NonBlank(lines)[1].sep)

\* a library call raised while the i-th file was processed
Raised(i) == DocOf(i).fault \in {"open"} \cup KeywordSet
                 \/ \E j \in 1..Len(results[i].calls) :
                        results[i].calls[j].rect = DocOf(i).fault

\* the i-th file got through the ISO / revision reads to the parsing step
ReachedParsing(i) ==
    /\ ~Raised(i)
    /\ \E j \in 1..Len(results[i].calls) : results[i].calls[j].rect \in FieldRects

-----------------------------------------------------------------------------
(* C1 *)

\* C1: the ISO-number and revision-number regions are read from the
\* CoordinateSet whose table region gave the accepted (non-empty) table text:
\* once table region 1 shows text, no region of set 2 is read (the set 2
\* table region included), and once table region 2 is the accepted one, the
\* ISO / revision regions of set 1 are not read.
C1_NoCrossSetMixing ==
    \A log \in Logs :
        /\ (\E i \in 1..Len(log) :
                log[i].rect = "table_rect_set1" /\ HasText(log[i].lines))
            => \A j \in 1..Len(log) : log[j].rect \notin Set2Rects
        /\ (\E i \in 1..Len(log) :
                log[i].rect = "table_rect_set2" /\ HasText(log[i].lines))
            => \A j \in 1..Len(log) :
                   log[j].rect \notin {"iso_no_rect_set1", "rev_no_rect_set1"}
        /\ \A j \in 1..Len(log) :
               log[j].rect \in FieldRects
                   => \E i \in 1..(j - 1) :
                          /\ log[i].rect = table_rect(SetOf(log[j].rect))
                          /\ HasText(log[i].lines)

\* a finished document whose set 1 table was accepted and whose ISO and
\* revision were read, while every region of set 2 shows text on each page read
C1_Witness ==
    \E i \in 1..Len(results) :
        /\ ~results[i].df.is_none
        /\ \E j \in 1..Len(results[i].calls) :
               results[i].calls[j].rect = "rev_no_rect_set1"
        /\ \A p \in 1..Len(DocOf(i).pages) :
               \A r \in Set2Rects : HasText(DocOf(i).pages[p].text[r])

-----------------------------------------------------------------------------
(* C2 *)

AllRowsFull(lines) == \A k \in 1..Len(lines) : lines[k].n \in {0, NumColumns}

\* C2: a document whose table text has a non-blank line with a number of
\* fields other than 19 returns no table, whatever its other lines; every
\* table in all_data, and so every row of the combined output, comes from a
\* document all of whose table lines had 19 fields, and holds all of them.
C2_WholeTableRejected ==
    /\ \A i \in 1..Len(results) :
           (\E j \in AcceptedTables(results[i].calls) :
                ~AllRowsFull(results[i].calls[j].lines))
               => results[i].df.is_none
    /\ \A a \in 1..Len(all_data) :
           \E i \in 1..Len(results) :
               /\ results[i].df = all_data[a]
               /\ \A j \in AcceptedTables(results[i].calls) :
                      /\ AllRowsFull(results[i].calls[j].lines)
                      /\ Len(all_data[a].rows)
                             = Len(NonBlank(results[i].calls[j].lines))
    /\ \A a \in 1..Len(all_data) :
           \A k \in 1..Len(all_data[a].rows) :
               Len(all_data[a].rows[k]) = NumColumns + 2
    /\ \A k \in 1..Len(final_df.rows) : Len(final_df.rows[k]) = NumColumns + 2

\* a document with a 19-field line followed by an 18-field line was rejected
\* as a schema mismatch
C2_Witness ==
    \E i \in 1..Len(results) :
        /\ results[i].df.is_none
        /\ Lines(i, "schema_mismatch") # {}
        /\ \E j \in AcceptedTables(results[i].calls) :
               LET lines == results[i].calls[j].lines
               IN  \E k, m \in 1..Len(lines) :
                       lines[k].n = NumColumns /\ lines[m].n = NumColumns - 1

-----------------------------------------------------------------------------
(* C3 *)

\* C3 as stated, for the documents that fitz.open opened: a document in which
\* a required keyword has no anchor ends with the missing-anchor outcome and
\* returns no table.
C3_AsStated ==
    \A i \in 1..Len(results) :
        LacksSome(DocOf(i)) /\ DocOf(i).fault # "open"
            => /\ results[i].df.is_none
               /\ Cardinality(Lines(i, "missing_keyword")) = 1

\* C3 amended: a document in which a required keyword has no anchor returns
\* no table, reads no region and adds nothing to all_data; when the document
\* opened and no keyword search raised, the outcome is missing-anchor and no
\* other failure is printed.
C3_MissingAnchor ==
    /\ \A i \in 1..Len(results) :
           LacksSome(DocOf(i))
               => /\ results[i].df.is_none
                  /\ results[i].calls = <<>>
                  /\ DocOf(i).fault \notin {"open"} \cup KeywordSet
                         => /\ Cardinality(Lines(i, "missing_keyword")) = 1
                            /\ FailureLines(i) = Lines(i, "missing_keyword")
    /\ \A a \in 1..Len(all_data) :
           \E i \in 1..Len(results) :
               results[i].df = all_data[a] /\ ~LacksSome(DocOf(i))
    /\ pc \in {"primary", "fallback", "set1", "set2", "parse"} => ~LacksSome(CurDoc)

\* a document without "REV. NO" whose two table regions both show well-formed
\* rows was given the missing-anchor outcome
C3_Witness ==
    \E i \in 1..Len(results) :
        /\ Lacks(DocOf(i), "REV. NO")
        /\ \A k \in KeywordSet \ {"REV. NO"} : ~Lacks(DocOf(i), k)
        /\ DocOf(i).fault = "none"
        /\ \A p \in 1..Len(DocOf(i).pages) :
               \A r \in TableRects :
                   /\ HasText(DocOf(i).pages[p].text[r])
                   /\ AllRowsFull(DocOf(i).pages[p].text[r])
        /\ Lines(i, "missing_keyword") # {}
        /\ results[i].df.is_none

-----------------------------------------------------------------------------
(* C4 *)

\* the tables returned for the first n processed files, failures left out
RECURSIVE Successful(_)
Successful(n) ==
    IF n = 0 THEN <<>>
    ELSE IF results[n].df.is_none THEN Successful(n - 1)
    ELSE Append(Successful(n - 1), results[n].df)

RECURSIVE RowsOf(_)
RowsOf(frames) == IF frames = <<>> THEN <<>> ELSE Head(frames).rows \o RowsOf(Tail(frames))

Collected == IF pc = "collect" THEN Len(results) - 1 ELSE Len(results)

\* C4: every PDF file of the listing is attempted, in listing order, whatever
\* the outcomes of the others; all_data holds the tables of the successful
\* documents in processing order, and the combined table is their rows in
\* that order.
C4_BatchSurvivesFailures ==
    /\ Len(results) <= Len(pdf_files)
    /\ \A i \in 1..Len(results) : results[i].file = pdf_files[i]
    /\ pc # "start" /\ folder.exists => pdf_files = SelectSeq(folder.listing, IsPdf)
    /\ pc = "done" => Len(results) = Len(pdf_files)
    /\ all_data = Successful(Collected)
    /\ pc = "done" /\ all_data # <<>>
           => final_df = Frame(RowsOf(Successful(Len(results))))
    /\ pc # "done" \/ all_data = <<>> => final_df = NoneDf

\* three files, the second of which failed to open, with the combined table
\* made of the different tables of the first and the third
C4_Witness ==
    /\ pc = "done"
    /\ Len(results) = 3
    /\ ~results[1].df.is_none
    /\ results[2].df.is_none /\ DocOf(2).fault = "open"
    /\ ~results[3].df.is_none
    /\ results[1].df # results[3].df
    /\ final_df.rows = results[1].df.rows \o results[3].df.rows

-----------------------------------------------------------------------------
(* C5 *)

\* C5: the files are processed in sorted-name order whatever the order of
\* the directory listing.
C5_SortedOrder ==
    pc # "start" /\ folder.exists => pdf_files = sorted_pdf_files(folder.listing)

-----------------------------------------------------------------------------
(* C6 *)

\* C6: a document is open only between its fitz.open and the return of
\* extract_data_from_pdf: at most one is open at any time, and none while the
\* loop is between two documents, whatever way the function returned.
C6_ClosedOnEveryExit ==
    /\ Cardinality(open_docs) <= 1
    /\ pc \in {"start", "loop", "open", "collect", "done"} => open_docs = {}
    /\ pc \in {"anchors", "primary", "fallback", "set1", "set2", "parse"}
           => open_docs = {pdf_path}

\* the second file is about to be opened after the first was opened, read
\* and then failed
C6_Witness ==
    /\ pc = "open"
    /\ file_idx = 2
    /\ results[1].df.is_none
    /\ results[1].calls # <<>>
    /\ open_docs = {}

-----------------------------------------------------------------------------
(* C7 *)

\* C7: every failing document gets exactly one failure line, which names
\* the file; a document that succeeds gets none.
C7_FailureNamesFile ==
    \A i \in 1..Len(results) :
        IF results[i].df.is_none
        THEN /\ Cardinality(FailureLines(i)) = 1
             /\ \A j \in FailureLines(i) : console[j].path = results[i].file
        ELSE FailureLines(i) = {}

-----------------------------------------------------------------------------
(* C8 *)

\* C8: when the accepted table text is K >= 1 lines of 19 tokens, blank
\* lines between them aside, the document returns K rows in line order, each
\* row the 19 tokens of its line in order, then the ISO-number text and the
\* revision-number text.
C8_RowsRoundTrip ==
    \A i \in 1..Len(results) :
        \A j \in AcceptedTables(results[i].calls) :
            LET log   == results[i].calls
                lines == NonBlank(log[j].lines)
            IN  ReachedParsing(i) /\ AllRowsFull(log[j].lines)
                    => /\ ~results[i].df.is_none
                       /\ Len(results[i].df.rows) = Len(lines)
                       /\ \A k \in 1..Len(lines) :
                              results[i].df.rows[k]
                                  = Tokens(lines[k])
                                      \o <<FieldText(log[j + 1].lines),
                                           FieldText(log[j + 2].lines)>>

\* two 19-token lines of different tokens and separators with a blank line
\* between them came back as two rows
C8_Witness ==
    \E i \in 1..Len(results) :
        /\ Len(results[i].df.rows) = 2
        /\ \E j \in AcceptedTables(results[i].calls) :
               LET lines == results[i].calls[j].lines
               IN  /\ Len(lines) = 3
                   /\ lines[1].n = NumColumns /\ lines[2].n = 0 /\ lines[3].n = NumColumns
                   /\ lines[1] # lines[3]

-----------------------------------------------------------------------------
(* C9 *)

\* C9 as stated: two corrections at 180 degrees give back the rectangle;
\* at 0 degrees, and at a rotation outside 90 / 180 / 270, the rectangle is
\* returned unchanged.
C9_AsStated ==
    /\ geo.out # <<>> /\ geo.page.rotation \notin {90, 180, 270}
           => geo.out[1] = geo.rect
    /\ Len(geo.out) = 2 /\ geo.page.rotation = 180 => geo.out[2] = geo.rect

\* the four differences of the 180 degree branch are floats
ExactAt180(page, rect) ==
    /\ IsFloat(page.width - rect.x0) /\ IsFloat(page.width - rect.x1)
    /\ IsFloat(page.height - rect.y0) /\ IsFloat(page.height - rect.y1)

\* C9 amended: two corrections at 180 degrees give back the rectangle when
\* width - x0, width - x1, height - y0 and height - y1 are representable
\* without rounding; at 0 degrees, and at a rotation outside 90 / 180 / 270,
\* the rectangle is returned unchanged.
C9_InvolutionWhenExact ==
    /\ geo.out # <<>> /\ geo.page.rotation \notin {90, 180, 270}
           => geo.out[1] = geo.rect
    /\ Len(geo.out) = 2 /\ geo.page.rotation = 180 /\ ExactAt180(geo.page, geo.rect)
           => geo.out[2] = geo.rect

\* a rectangle that the first correction at 180 degrees moved and the second
\* moved back
C9_Witness ==
    /\ Len(geo.out) = 2
    /\ geo.page.rotation = 180
    /\ ExactAt180(geo.page, geo.rect)
    /\ geo.rect.x0 # geo.rect.x1 /\ geo.rect.y0 # geo.rect.y1
    /\ geo.out[1] # geo.rect
    /\ geo.out[2] = geo.rect

-----------------------------------------------------------------------------
(* C10 *)

\* the table reads of a log returned empty text twice
BothTablesEmpty(log) ==
    /\ Len(log) >= 2
    /\ log[1].rect = "table_rect_set1" /\ ~HasText(log[1].lines)
    /\ log[2].rect = "table_rect_set2" /\ ~HasText(log[2].lines)

\* C10: the first region read is the primary table region, on the page of
\* the first "NPS" anchor; the fallback table region is read only second,
\* only after the primary showed no text, and on the same page; a document
\* gets the no-table-text outcome exactly when both table reads returned
\* empty text, and then nothing else is read and parsing is not reached.
C10_PrimaryThenFallback ==
    /\ pc \in {"open", "anchors", "primary"} => extracted = <<>>
    /\ pc = "fallback" => Len(extracted) = 1 /\ ~HasText(extracted[1].lines)
    /\ pc = "set1" => Len(extracted) = 1 /\ HasText(extracted[1].lines)
    /\ pc = "set2" => Len(extracted) = 2 /\ HasText(extracted[2].lines)
    /\ pc = "parse" => \E j \in 1..Len(extracted) : extracted[j].rect \in FieldRects
    /\ pc \in {"fallback", "set1", "set2", "parse"}
           => extracted[1].page = FirstPageOf(CurDoc, "NPS")
    /\ \A i \in 1..Len(results) :
           results[i].calls # <<>>
               => /\ ~LacksSome(DocOf(i))
                  /\ results[i].calls[1].page = FirstPageOf(DocOf(i), "NPS")
    /\ \A log \in Logs :
           /\ log # <<>> => log[1].rect = "table_rect_set1"
           /\ \A j \in 1..Len(log) :
                  /\ log[j].rect = "table_rect_set1" => j = 1
                  /\ log[j].rect = "table_rect_set2"
                         => /\ j = 2
                            /\ ~HasText(log[1].lines)
                            /\ log[2].page = log[1].page
    /\ \A i \in 1..Len(results) :
           /\ Lines(i, "no_table_text") # {}
                  <=> (BothTablesEmpty(results[i].calls) /\ ~Raised(i))
           /\ Lines(i, "no_table_text") # {}
                  => /\ Len(results[i].calls) = 2
                     /\ results[i].df.is_none
                     /\ FailureLines(i) = Lines(i, "no_table_text")
                     /\ Cardinality(FailureLines(i)) = 1

\* a document on two pages, the first "NPS" anchor on the second, whose two
\* table regions are empty there while its ISO and revision regions show text
C10_Witness ==
    \E i \in 1..Len(results) :
        /\ Lines(i, "no_table_text") # {}
        /\ results[i].calls[2].page = 1
        /\ \A p \in 1..Len(DocOf(i).pages) :
               \A r \in {"iso_no_rect_set1", "rev_no_rect_set1"} :
                   HasText(DocOf(i).pages[p].text[r])

=============================================================================
